---- MODULE Spec2Model ----
(***************************************************************************)
(* FinanSmart ledger (DaviiSA/AppControle): the record store of App.tsx,   *)
(* the TransactionForm submit handler and the Google-Sheets sync adapter,  *)
(* as one state machine.  A step is one UI event handler, one resumption   *)
(* of an awaited request or one timer callback, run to completion together *)
(* with the persistence effect that the re-render triggers.                *)
(***************************************************************************)
EXTENDS Integers, Sequences, FiniteSets, TLC

VARIABLES
    transactions,   \* App state: Transaction[] (index 1 = first element)
    storage,        \* localStorage['finansmart_data_v2'], as a JSON value
    isFormOpen,     \* App state: the TransactionForm is mounted
    sheetUrl,       \* App state, mirrored to localStorage['sheet_url']
    isSyncing,      \* App state
    syncStatus,     \* App state: 'idle' | 'success' | 'error'
    pending,        \* requests awaited by handleSync / handleLoad, pushes first
    timers,         \* armed setTimeout(() => setSyncStatus('idle'), 3000)
    variant,        \* which of the two App components of App.tsx is mounted
    endpoint,       \* environment: how the user's endpoint behaves
    remote,         \* environment: body held by an endpoint that stores it,
                    \* and (observation only) the collection it was made of
    now,            \* environment: the clock, in minutes since the epoch
    tzOffset,       \* environment: minutes the local clock is ahead of UTC
    ev              \* the last event and its inputs (observation only)

ledgerVars == <<transactions, storage, isFormOpen>>
syncVars   == <<sheetUrl, isSyncing, syncStatus, pending, timers>>
envVars    == <<variant, endpoint, remote, now, tzOffset>>
vars       == <<transactions, storage, isFormOpen, sheetUrl, isSyncing,
                syncStatus, pending, timers, variant, endpoint, remote, now,
                tzOffset, ev>>

(***************************************************************************)
(* Bounds of the exploration.                                              *)
(***************************************************************************)
MaxLen     == 2     \* records in the collection before an add is explored
MaxPending == 2     \* requests in flight at once
MaxTimers  == 1     \* reset timers armed at once

(***************************************************************************)
(* Values.  A JS number is a tagged value so that NaN and JSON null are    *)
(* values of their own; an absent optional property reads as Undefined.    *)
(***************************************************************************)
Undefined == "<undefined>"
NaN       == [k |-> "nan",  v |-> 0]
Null      == [k |-> "null", v |-> 0]
Num(n)    == [k |-> "num",  v |-> n]

TransactionTypes == {"RECEITA", "GASTO_FIXO", "GASTO_CARTAO", "GASTO_DIVERSO"}

OptionalKeys == {"dueDate", "cardName", "installments"}
RequiredKeys == {"id", "description", "amount", "date", "type", "category",
                 "isPaid"}

\* ids that Math.random().toString(36).substr(2, 9) may produce
Ids == {"a", "b"}

(***************************************************************************)
(* parseFloat on the text of the amount field (a sequence of characters):  *)
(* an optional sign, then the longest run of digits; NaN when there is no  *)
(* digit; characters after the run are ignored.  Fractions and exponents   *)
(* are outside the texts explored.                                         *)
(***************************************************************************)
DigitValue ==
    ("0" :> 0) @@ ("1" :> 1) @@ ("2" :> 2) @@ ("3" :> 3) @@ ("4" :> 4) @@
    ("5" :> 5) @@ ("6" :> 6) @@ ("7" :> 7) @@ ("8" :> 8) @@ ("9" :> 9)

RECURSIVE ReadDigits(_, _, _)
ReadDigits(s, i, acc) ==
    IF i > Len(s) \/ s[i] \notin DOMAIN DigitValue
    THEN [next |-> i, v |-> acc]
    ELSE ReadDigits(s, i + 1, acc * 10 + DigitValue[s[i]])

parseFloat(s) ==
    LET signed == Len(s) > 0 /\ s[1] \in {"-", "+"}
        start  == IF signed THEN 2 ELSE 1
        r      == ReadDigits(s, start, 0)
    IN  IF r.next = start
        THEN NaN
        ELSE Num(IF signed /\ s[1] = "-" THEN 0 - r.v ELSE r.v)

(***************************************************************************)
(* JSON.stringify / JSON.parse of a Transaction[].  In the text a property *)
(* whose value is undefined is left out and a NaN number is written as     *)
(* null; a parsed object reads undefined for every property it lacks.      *)
(***************************************************************************)
stringifyNumber(a) == IF a.k = "nan" THEN Null ELSE a

stringifyObject(t) ==
    [key \in RequiredKeys \cup {o \in OptionalKeys : t[o] # Undefined} |->
        IF key = "amount" THEN stringifyNumber(t[key]) ELSE t[key]]

JSONstringify(ts) == [i \in 1..Len(ts) |-> stringifyObject(ts[i])]

parseObject(j) ==
    [key \in RequiredKeys \cup OptionalKeys |->
        IF key \in DOMAIN j THEN j[key] ELSE Undefined]

JSONparse(text) == [i \in 1..Len(text) |-> parseObject(text[i])]

(***************************************************************************)
(* TransactionForm.handleSubmit and App's onAdd.                           *)
(***************************************************************************)
\* submitData that passes the card fields on for every type
submitData_keepsCard(f) ==
    [description  |-> f.description,
     amount       |-> parseFloat(f.amount),
     date         |-> f.date,
     type         |-> f.type,
     category     |-> f.type,
     isPaid       |-> (f.type = "RECEITA"),
     dueDate      |-> f.date,
     cardName     |-> f.cardName,
     installments |-> f.installments]

\* submitData with isPaid left false for every type
submitData_neverPaid(f) ==
    [description  |-> f.description,
     amount       |-> parseFloat(f.amount),
     date         |-> f.date,
     type         |-> f.type,
     category     |-> f.type,
     isPaid       |-> FALSE,
     dueDate      |-> f.date,
     cardName     |-> IF f.type = "GASTO_CARTAO" THEN f.cardName ELSE Undefined,
     installments |-> IF f.type = "GASTO_CARTAO" THEN f.installments
                      ELSE Undefined]

\* the object handleSubmit passes to onAdd
submitData(f) ==
    [description  |-> f.description,
     amount       |-> parseFloat(f.amount),
     date         |-> f.date,
     type         |-> f.type,
     category     |-> f.type,
     isPaid       |-> (f.type = "RECEITA"),
     dueDate      |-> f.date,
     cardName     |-> IF f.type = "GASTO_CARTAO" THEN f.cardName ELSE Undefined,
     installments |-> IF f.type = "GASTO_CARTAO" THEN f.installments
                      ELSE Undefined]

\* the guard without its test of the date
submitRejected_noDateTest(f) == f.description = "" \/ f.amount = <<>>

\* the guard of handleSubmit: `if (!description || !amount || !date) return`
submitRejected(f) == f.description = "" \/ f.amount = <<>> \/ f.date = ""

\* onAdd that puts the new record behind the others
onAdd_appends(ts, data, id) == ts \o <<data @@ ("id" :> id)>>

\* onAdd with an id that is not drawn afresh
onAdd_fixedId(ts, data, id) == <<data @@ ("id" :> "a")>> \o ts

\* [{ ...data, id }, ...transactions]
onAdd(ts, data, id) == <<data @@ ("id" :> id)>> \o ts

\* togglePaid that also clears the amount of the record it flips
togglePaidMap_clearsAmount(ts, id) ==
    [i \in 1..Len(ts) |->
        IF ts[i].id = id
        THEN [ts[i] EXCEPT !.isPaid = ~ts[i].isPaid, !.amount = Num(0)]
        ELSE ts[i]]

\* togglePaid that flips every record, whatever its id
togglePaidMap_everyRecord(ts, id) ==
    [i \in 1..Len(ts) |-> [ts[i] EXCEPT !.isPaid = ~ts[i].isPaid]]

\* togglePaid that marks the record paid instead of flipping it
togglePaidMap_markPaid(ts, id) ==
    [i \in 1..Len(ts) |->
        IF ts[i].id = id THEN [ts[i] EXCEPT !.isPaid = TRUE] ELSE ts[i]]

\* transactions.map(t => t.id === id ? { ...t, isPaid: !t.isPaid } : t)
togglePaidMap(ts, id) ==
    [i \in 1..Len(ts) |->
        IF ts[i].id = id THEN [ts[i] EXCEPT !.isPaid = ~ts[i].isPaid]
        ELSE ts[i]]

\* the filter with its test inverted
deleteFilter_inverted(ts, id) == SelectSeq(ts, LAMBDA t : t.id = id)

\* transactions.filter(t => t.id !== id)
deleteFilter(ts, id) == SelectSeq(ts, LAMBDA t : t.id # id)

\* the effect on [transactions]: localStorage.setItem(key, JSON.stringify(..))
persistEffect(ts) == JSONstringify(ts)

\* whether a handler's setTransactions installed another collection
Changed(before, after) == before # after

(***************************************************************************)
(* The derived views of App: memos recomputed from transactions on every   *)
(* render.  Times are minutes since the epoch (getTime() / 60000).         *)
(***************************************************************************)
\* a + b and a - b on JS numbers: NaN absorbs, null converts to 0
jsAdd(a, b) == IF a.k = "nan" \/ b.k = "nan" THEN NaN ELSE Num(a.v + b.v)
\* a subtraction that adds
jsSub_adds(a, b) == IF a.k = "nan" \/ b.k = "nan" THEN NaN ELSE Num(a.v + b.v)

jsSub(a, b) == IF a.k = "nan" \/ b.k = "nan" THEN NaN ELSE Num(a.v - b.v)

\* ts.reduce((a, b) => a + b.amount, 0)
RECURSIVE reduceAmount(_, _)
reduceAmount(ts, acc) ==
    IF ts = <<>> THEN acc
    ELSE reduceAmount(Tail(ts), jsAdd(acc, Head(ts).amount))

sumAmount(ts) == reduceAmount(ts, Num(0))

\* the date strings explored, as days since 1970-01-01
DayNumber ==
    [d \in {"2024-01-05", "2024-01-09", "2024-01-10", "2024-01-11"} |->
        CASE d = "2024-01-05" -> 19727
          [] d = "2024-01-09" -> 19731
          [] d = "2024-01-10" -> 19732
          [] d = "2024-01-11" -> 19733]

MinutesPerDay == 24 * 60

\* new Date("YYYY-MM-DD").getTime(): a date-only string is midnight UTC
dateTime(dateStr) == DayNumber[dateStr] * MinutesPerDay

\* d.setHours(0, 0, 0, 0): the midnight that starts d's day on the local
\* clock, which runs tzOffset minutes ahead of UTC
setHoursZero(t) ==
    ((t + tzOffset) \div MinutesPerDay) * MinutesPerDay - tzOffset

\* isOverdue with the test of isPaid left out
isOverdue_ignoresPaid(dateStr, isPaid) ==
    setHoursZero(dateTime(dateStr)) < setHoursZero(now)

\* isOverdue(dateStr, isPaid)
isOverdue(dateStr, isPaid) ==
    IF isPaid THEN FALSE
    ELSE setHoursZero(dateTime(dateStr)) < setHoursZero(now)

\* transactions.some(t => isOverdue(t.date, t.isPaid))
overdueAlert(ts) ==
    \E i \in 1..Len(ts) : isOverdue(ts[i].date, ts[i].isPaid)

\* [...ts].sort((a, b) => time(a.date) - time(b.date)); the sort is stable
RECURSIVE sortedTransactions(_)
sortedTransactions(ts) ==
    IF ts = <<>> THEN <<>>
    ELSE LET h    == Head(ts)
             rest == sortedTransactions(Tail(ts))
         IN  SelectSeq(rest, LAMBDA t : dateTime(t.date) < dateTime(h.date))
             \o <<h>>
             \o SelectSeq(rest, LAMBDA t : dateTime(t.date) >= dateTime(h.date))

\* Array.prototype.reverse
reverse(s) == [i \in 1..Len(s) |-> s[Len(s) + 1 - i]]

filterType(ts, ty) == SelectSeq(ts, LAMBDA t : t.type = ty)

\* the cards of the cartoes / cartoesDetalhe object
CardNames == {"BaneseCard", "Nubank Davi", "Torra", "Iti Tuy"}

\* one bucket per card: sortedTransactions.filter(t => t.cardName === name)
cardBuckets(ts) ==
    [name \in CardNames |->
        SelectSeq(sortedTransactions(ts), LAMBDA t : t.cardName = name)]

\* grouped; the first component has no gastosDiversos and calls the buckets
\* cartoes, the second calls them cartoesDetalhe
grouped(ts) ==
    LET s == sortedTransactions(ts)
    IN  IF variant = 1
        THEN [receitas      |-> reverse(filterType(s, "RECEITA")),
              gastosFixos   |-> filterType(s, "GASTO_FIXO"),
              gastosCartoes |-> filterType(s, "GASTO_CARTAO"),
              cartoes       |-> cardBuckets(ts)]
        ELSE [receitas       |-> reverse(filterType(s, "RECEITA")),
              gastosFixos    |-> filterType(s, "GASTO_FIXO"),
              gastosCartoes  |-> filterType(s, "GASTO_CARTAO"),
              gastosDiversos |-> filterType(s, "GASTO_DIVERSO"),
              cartoesDetalhe |-> cardBuckets(ts)]

\* the filter of the pending sums without its test
unpaid_keepsPaid(ts) == ts

\* .filter(t => !t.isPaid)
unpaid(ts) == SelectSeq(ts, LAMBDA t : ~t.isPaid)

\* totals of the two components
totals(ts) ==
    LET g            == grouped(ts)
        income       == sumAmount(g.receitas)
        fixedPending == sumAmount(unpaid(g.gastosFixos))
        cardsPending == sumAmount(unpaid(g.gastosCartoes))
    IN  IF variant = 1
        THEN LET expenses ==
                    sumAmount(SelectSeq(ts, LAMBDA t : t.type # "RECEITA"))
             IN  [income |-> income, expenses |-> expenses,
                  balance |-> jsSub(income, expenses),
                  fixedPending |-> fixedPending,
                  cardsPending |-> cardsPending]
        ELSE LET fixed  == sumAmount(g.gastosFixos)
                 cards  == sumAmount(g.gastosCartoes)
                 divers == sumAmount(g.gastosDiversos)
             IN  [income |-> income,
                  expenses |-> jsAdd(jsAdd(fixed, cards), divers),
                  balance |-> jsSub(income, jsAdd(jsAdd(fixed, cards), divers)),
                  fixedPending |-> fixedPending,
                  cardsPending |-> cardsPending]

(***************************************************************************)
(* The score of the first component.  A quotient is kept exact, as the     *)
(* fraction n / d with d > 0.                                              *)
(***************************************************************************)
Frac(n, d) == IF d < 0 THEN [n |-> 0 - n, d |-> 0 - d] ELSE [n |-> n, d |-> d]

\* totals.income || 1: 0 and NaN are falsy
incomeOrOne(income) ==
    IF income.k = "nan" \/ income.v = 0 THEN 1 ELSE income.v

\* Math.min(100, q) and Math.max(0, q)
mathMin100(q) == IF q.n <= 100 * q.d THEN q ELSE Frac(100, 1)
mathMax0(q)   == IF q.n < 0 THEN Frac(0, 1) ELSE q

\* the score with the quotient added instead of subtracted
scoreOfRatio_adds(q) ==
    LET m == mathMin100(q) IN mathMax0(Frac(100 * m.d + m.n, m.d))

\* Math.max(0, 100 - Math.min(100, q))
scoreOfRatio(q) ==
    LET m == mathMin100(q) IN mathMax0(Frac(100 * m.d - m.n, m.d))

\* x.toFixed(0) for x >= 0: the nearest integer, the larger one at a tie
toFixed0(q) == (2 * q.n + q.d) \div (2 * q.d)

\* Math.max(0, 100 - Math.min(100, expenses / (income || 1) * 100)), before
\* and after .toFixed(0); NaN when expenses is NaN
scoreExact(ts) ==
    LET tt == totals(ts)
    IN  IF tt.expenses.k = "nan" THEN NaN
        ELSE scoreOfRatio(Frac(tt.expenses.v * 100, incomeOrOne(tt.income)))

score(ts) ==
    IF scoreExact(ts) = NaN THEN NaN ELSE Num(toFixed0(scoreExact(ts)))

(***************************************************************************)
(* Inputs explored.                                                        *)
(***************************************************************************)
Form(d, a, dt, ty, c, n) ==
    [description |-> d, amount |-> a, date |-> dt, type |-> ty,
     cardName |-> c, installments |-> n]

\* fillings of the form: one per type with card fields typed in, a text
\* that is no number, a negative amount on another date, a card expense
\* without card, and one filling per missing required field
LedgerForms ==
    {Form("Rent", <<"1", "0">>, "2024-01-10", ty, "Torra", "2/6") :
        ty \in TransactionTypes}
    \cup {Form("Rent", <<"x">>, "2024-01-10", "GASTO_FIXO", "", ""),
          Form("Gift", <<"-", "5", "x">>, "2024-01-05", "RECEITA", "", ""),
          Form("Shoes", <<"7">>, "2024-01-05", "GASTO_CARTAO", "", ""),
          Form("", <<"1", "0">>, "2024-01-10", "GASTO_FIXO", "", ""),
          Form("Rent", <<>>, "2024-01-10", "RECEITA", "", ""),
          Form("Rent", <<"1", "0">>, "", "GASTO_CARTAO", "Torra", "2/6")}

\* an endpoint that has received nothing yet serves the empty array
EmptyRemote == [body |-> <<>>, origin |-> <<>>]

(***************************************************************************)
(* Initial state: the mount of App with nothing in localStorage, after the *)
(* first run of the persistence effect.                                    *)
(***************************************************************************)
InitCommon ==
    /\ transactions = <<>>
    /\ storage = persistEffect(<<>>)
    /\ isFormOpen = FALSE
    /\ sheetUrl = ""
    /\ isSyncing = FALSE
    /\ syncStatus = "idle"
    /\ pending = <<>>
    /\ timers = 0
    /\ remote = EmptyRemote
    /\ ev = [op |-> "mount"]

(***************************************************************************)
(* Record store actions.                                                   *)
(***************************************************************************)
\* onClick={() => setIsFormOpen(true)}
openForm ==
    /\ ~isFormOpen
    /\ isFormOpen' = TRUE
    /\ ev' = [op |-> "openForm"]
    /\ UNCHANGED <<transactions, storage>>
    /\ UNCHANGED syncVars
    /\ UNCHANGED envVars

\* the form's close and cancel buttons: onClose
closeForm ==
    /\ isFormOpen
    /\ isFormOpen' = FALSE
    /\ ev' = [op |-> "closeForm"]
    /\ UNCHANGED <<transactions, storage>>
    /\ UNCHANGED syncVars
    /\ UNCHANGED envVars

\* submit of the form with filling f; id is the draw of Math.random
handleSubmit(f, id) ==
    /\ isFormOpen
    /\ IF submitRejected(f)
       THEN /\ UNCHANGED <<transactions, storage, isFormOpen>>
            /\ ev' = [op |-> "submit", form |-> f, added |-> FALSE,
                      id |-> Undefined, changed |-> FALSE]
       ELSE /\ transactions' = onAdd(transactions, submitData(f), id)
            /\ storage' = persistEffect(transactions')
            /\ isFormOpen' = FALSE
            /\ ev' = [op |-> "submit", form |-> f, added |-> TRUE,
                      id |-> id,
                      changed |-> Changed(transactions, transactions')]
    /\ UNCHANGED syncVars
    /\ UNCHANGED envVars

\* togglePaid(id); ev.twice: the event before was togglePaid of the same id,
\* and ev.origin is then the collection before that first call
togglePaid(id) ==
    /\ transactions' = togglePaidMap(transactions, id)
    /\ storage' = persistEffect(transactions')
    /\ LET twice == ev.op = "togglePaid" /\ ev.id = id
       IN  ev' = [op |-> "togglePaid", id |-> id, before |-> transactions,
                  twice |-> twice,
                  origin |-> IF twice THEN ev.before ELSE transactions,
                  changed |-> Changed(transactions, transactions')]
    /\ UNCHANGED isFormOpen
    /\ UNCHANGED syncVars
    /\ UNCHANGED envVars

\* deleteTransaction that does not wait for the answer of confirm(...)
deleteTransaction_unconfirmed(id, confirmed) ==
    /\ transactions' = deleteFilter(transactions, id)
    /\ storage' = persistEffect(transactions')
    /\ ev' = [op |-> "deleteTransaction", id |-> id, confirmed |-> confirmed,
              again |-> (ev.op = "deleteTransaction" /\ ev.id = id
                         /\ ev.confirmed),
              changed |-> Changed(transactions, transactions')]
    /\ UNCHANGED isFormOpen
    /\ UNCHANGED syncVars
    /\ UNCHANGED envVars

\* deleteTransaction(id); confirmed is the user's answer to confirm(...);
\* ev.again: the event before was a confirmed delete of the same id
deleteTransaction(id, confirmed) ==
    /\ IF confirmed
       THEN /\ transactions' = deleteFilter(transactions, id)
            /\ storage' = persistEffect(transactions')
       ELSE UNCHANGED <<transactions, storage>>
    /\ ev' = [op |-> "deleteTransaction", id |-> id, confirmed |-> confirmed,
              again |-> (ev.op = "deleteTransaction" /\ ev.id = id
                         /\ ev.confirmed),
              changed |-> Changed(transactions, transactions')]
    /\ UNCHANGED isFormOpen
    /\ UNCHANGED syncVars
    /\ UNCHANGED envVars

\* a reload of the page: App mounts again from localStorage; requests in
\* flight and armed timers belong to the discarded page
mount ==
    /\ transactions' = JSONparse(storage)
    /\ storage' = persistEffect(transactions')
    /\ isFormOpen' = FALSE
    /\ isSyncing' = FALSE
    /\ syncStatus' = "idle"
    /\ pending' = <<>>
    /\ timers' = 0
    /\ ev' = [op |-> "reload"]
    /\ UNCHANGED sheetUrl
    /\ UNCHANGED envVars

(***************************************************************************)
(* The record store alone, with the fillings of LedgerForms.               *)
(***************************************************************************)
\* a clock that stands still: 2024-01-10 12:00 UTC on a machine in UTC-3
FixedClock == now = dateTime("2024-01-10") + 720 /\ tzOffset = -180

InitLedger == InitCommon /\ FixedClock /\ variant = 1 /\ endpoint = "opaque"

NextLedger ==
    \/ openForm
    \/ closeForm
    \/ \E f \in LedgerForms, id \in Ids :
          Len(transactions) < MaxLen /\ handleSubmit(f, id)
    \/ \E id \in Ids : togglePaid(id)
    \/ \E id \in Ids, confirmed \in BOOLEAN : deleteTransaction(id, confirmed)
    \/ mount

SpecLedger == InitLedger /\ [][NextLedger]_vars

(***************************************************************************)
(* Sync adapter (googleSheetsService.ts) and its callers in App.           *)
(***************************************************************************)
\* what the awaited fetch of syncToGoogleSheets can do: the no-cors request
\* was dispatched (the response is opaque and ignored), or fetch rejected
PushOutcomes == {"sent", "throw"}

\* what the awaited calls of loadFromGoogleSheets can do: fetch rejects,
\* the status is not ok, response.json() rejects, or a JSON value is parsed
PullOutcomes == {"throw", "notok", "badjson", "ok"}

PayloadRecord(id, ty, paid) ==
    [id |-> id, description |-> "Cloud", amount |-> Num(3),
     date |-> "2024-01-05", type |-> ty, category |-> ty, isPaid |-> paid]

\* bodies an endpoint that is not under the program's control may answer:
\* an empty sheet, one well-formed record, and two records that share an id,
\* one of them an unpaid income and one a fixed expense naming a card
Payloads ==
    {<<>>,
     <<PayloadRecord("a", "GASTO_FIXO", FALSE)>>,
     <<PayloadRecord("b", "RECEITA", FALSE),
       PayloadRecord("b", "GASTO_FIXO", TRUE) @@ ("cardName" :> "Torra")>>}

\* the body a GET is answered with
Responses == IF endpoint = "echo" THEN {remote.body} ELSE Payloads

RemoveAt(s, i) == SubSeq(s, 1, i - 1) \o SubSeq(s, i + 1, Len(s))

\* the body syncToGoogleSheets posts; only an endpoint that stores what it
\* receives keeps it
postedBody(ts) == IF endpoint = "echo" THEN JSONstringify(ts) ELSE <<>>

\* the collection the posted body was made of (observation only)
postedFrom(ts) == IF endpoint = "echo" THEN ts ELSE <<>>

\* onChange of the URL field: setSheetUrl(e.target.value)
setSheetUrl(url) ==
    /\ sheetUrl # url
    /\ sheetUrl' = url
    /\ ev' = [op |-> "setSheetUrl"]
    /\ UNCHANGED ledgerVars
    /\ UNCHANGED <<isSyncing, syncStatus, pending, timers>>
    /\ UNCHANGED envVars

\* handleSync up to its await.  The second App component disables the button
\* while isSyncing; the first one does not.
handleSync ==
    /\ variant = 2 => ~isSyncing
    /\ IF sheetUrl = ""
       THEN /\ UNCHANGED <<isSyncing, pending>>
            /\ ev' = [op |-> "handleSync", started |-> FALSE]
       ELSE /\ isSyncing' = TRUE
            /\ pending' = <<[kind |-> "push",
                             body |-> postedBody(transactions),
                             sent |-> postedFrom(transactions)]>> \o pending
            /\ ev' = [op |-> "handleSync", started |-> TRUE]
    /\ UNCHANGED ledgerVars
    /\ UNCHANGED <<sheetUrl, syncStatus, timers>>
    /\ UNCHANGED envVars

\* handleSync without its finally block on the path of the catch
handleSyncResume_staysSyncing(i, outcome) ==
    /\ pending[i].kind = "push"
    /\ pending' = RemoveAt(pending, i)
    /\ IF outcome = "sent"
       THEN /\ timers < MaxTimers
            /\ syncStatus' = "success"
            /\ timers' = timers + 1
            /\ remote' = IF endpoint = "echo"
                         THEN [body   |-> pending[i].body,
                               origin |-> pending[i].sent]
                         ELSE remote
            /\ isSyncing' = FALSE
       ELSE /\ syncStatus' = "error"
            /\ UNCHANGED <<timers, remote, isSyncing>>
    /\ ev' = [op |-> "handleSyncResume", outcome |-> outcome]
    /\ UNCHANGED ledgerVars
    /\ UNCHANGED <<sheetUrl, variant, endpoint, now, tzOffset>>

\* handleSync whose catch block reports success as well
handleSyncResume_hidesError(i, outcome) ==
    /\ pending[i].kind = "push"
    /\ pending' = RemoveAt(pending, i)
    /\ IF outcome = "sent"
       THEN /\ timers < MaxTimers
            /\ timers' = timers + 1
            /\ remote' = IF endpoint = "echo"
                         THEN [body   |-> pending[i].body,
                               origin |-> pending[i].sent]
                         ELSE remote
       ELSE UNCHANGED <<timers, remote>>
    /\ syncStatus' = "success"
    /\ isSyncing' = FALSE
    /\ ev' = [op |-> "handleSyncResume", outcome |-> outcome]
    /\ UNCHANGED ledgerVars
    /\ UNCHANGED <<sheetUrl, variant, endpoint, now, tzOffset>>

\* handleSync from the await on, for the request pending[i]
handleSyncResume(i, outcome) ==
    /\ pending[i].kind = "push"
    /\ pending' = RemoveAt(pending, i)
    /\ IF outcome = "sent"
       THEN /\ timers < MaxTimers
            /\ syncStatus' = "success"
            /\ timers' = timers + 1
            /\ remote' = IF endpoint = "echo"
                         THEN [body   |-> pending[i].body,
                               origin |-> pending[i].sent]
                         ELSE remote
       ELSE /\ syncStatus' = "error"
            /\ UNCHANGED <<timers, remote>>
    /\ isSyncing' = FALSE
    /\ ev' = [op |-> "handleSyncResume", outcome |-> outcome]
    /\ UNCHANGED ledgerVars
    /\ UNCHANGED <<sheetUrl, variant, endpoint, now, tzOffset>>

\* the callback of setTimeout(() => setSyncStatus('idle'), 3000)
timerFire ==
    /\ timers > 0
    /\ timers' = timers - 1
    /\ syncStatus' = "idle"
    /\ ev' = [op |-> "timerFire", statusBefore |-> syncStatus]
    /\ UNCHANGED ledgerVars
    /\ UNCHANGED <<sheetUrl, isSyncing, pending>>
    /\ UNCHANGED envVars

\* handleLoad up to its await; confirmed is the user's answer to confirm(...)
handleLoad(confirmed) ==
    /\ IF sheetUrl = "" \/ ~confirmed
       THEN /\ UNCHANGED <<isSyncing, pending>>
            /\ ev' = [op |-> "handleLoad", confirmed |-> confirmed,
                      started |-> FALSE]
       ELSE /\ isSyncing' = TRUE
            /\ pending' = Append(pending, [kind |-> "pull"])
            /\ ev' = [op |-> "handleLoad", confirmed |-> confirmed,
                      started |-> TRUE]
    /\ UNCHANGED ledgerVars
    /\ UNCHANGED <<sheetUrl, syncStatus, timers>>
    /\ UNCHANGED envVars

\* handleLoad that keeps what a pull resolved just before has installed
handleLoadResume_firstWins(i, outcome, body) ==
    /\ pending[i].kind = "pull"
    /\ pending' = RemoveAt(pending, i)
    /\ IF outcome = "ok" /\ ~(ev.op = "handleLoadResume" /\ ev.outcome = "ok")
       THEN /\ transactions' = JSONparse(body)
            /\ storage' = persistEffect(transactions')
       ELSE UNCHANGED <<transactions, storage>>
    /\ isSyncing' = FALSE
    /\ ev' = [op |-> "handleLoadResume", outcome |-> outcome,
              payload |-> IF outcome = "ok" THEN body ELSE <<>>,
              afterEdit |-> FALSE,
              raced |-> (/\ outcome = "ok"
                         /\ ev.op = "handleLoadResume"
                         /\ ev.outcome = "ok"
                         /\ ev.payload # body)]
    /\ UNCHANGED isFormOpen
    /\ UNCHANGED <<sheetUrl, syncStatus, timers>>
    /\ UNCHANGED envVars

\* handleLoad that installs the body whatever the status of the response
handleLoadResume_ignoresStatus(i, outcome, body) ==
    /\ pending[i].kind = "pull"
    /\ pending' = RemoveAt(pending, i)
    /\ IF outcome \in {"ok", "notok"}
       THEN /\ transactions' = JSONparse(body)
            /\ storage' = persistEffect(transactions')
       ELSE UNCHANGED <<transactions, storage>>
    /\ isSyncing' = FALSE
    /\ ev' = [op |-> "handleLoadResume", outcome |-> outcome,
              payload |-> IF outcome = "ok" THEN body ELSE <<>>,
              afterEdit |-> (ev.op \in {"submit", "togglePaid",
                                        "deleteTransaction"}
                             /\ ev.changed),
              raced |-> (/\ outcome = "ok"
                         /\ ev.op = "handleLoadResume"
                         /\ ev.outcome = "ok"
                         /\ ev.payload # body)]
    /\ UNCHANGED isFormOpen
    /\ UNCHANGED <<sheetUrl, syncStatus, timers>>
    /\ UNCHANGED envVars

\* handleLoad that merges the body into the local collection
handleLoadResume_merges(i, outcome, body) ==
    /\ pending[i].kind = "pull"
    /\ pending' = RemoveAt(pending, i)
    /\ IF outcome = "ok"
       THEN /\ transactions' = JSONparse(body) \o transactions
            /\ storage' = persistEffect(transactions')
       ELSE UNCHANGED <<transactions, storage>>
    /\ isSyncing' = FALSE
    /\ ev' = [op |-> "handleLoadResume", outcome |-> outcome,
              payload |-> IF outcome = "ok" THEN body ELSE <<>>,
              afterEdit |-> (ev.op \in {"submit", "togglePaid",
                                        "deleteTransaction"}
                             /\ ev.changed),
              raced |-> (/\ outcome = "ok"
                         /\ ev.op = "handleLoadResume"
                         /\ ev.outcome = "ok"
                         /\ ev.payload # body)]
    /\ UNCHANGED isFormOpen
    /\ UNCHANGED <<sheetUrl, syncStatus, timers>>
    /\ UNCHANGED envVars

\* handleLoad from the await on, for the request pending[i]; ev.afterEdit:
\* the event before changed the collection locally while this pull was
\* pending; ev.raced: the event before was the success of another pull,
\* which this pull overlapped, with another body
handleLoadResume(i, outcome, body) ==
    /\ pending[i].kind = "pull"
    /\ pending' = RemoveAt(pending, i)
    /\ IF outcome = "ok"
       THEN /\ transactions' = JSONparse(body)
            /\ storage' = persistEffect(transactions')
       ELSE UNCHANGED <<transactions, storage>>
    /\ isSyncing' = FALSE
    /\ ev' = [op |-> "handleLoadResume", outcome |-> outcome,
              payload |-> IF outcome = "ok" THEN body ELSE <<>>,
              afterEdit |-> (ev.op \in {"submit", "togglePaid",
                                        "deleteTransaction"}
                             /\ ev.changed),
              raced |-> (/\ outcome = "ok"
                         /\ ev.op = "handleLoadResume"
                         /\ ev.outcome = "ok"
                         /\ ev.payload # body)]
    /\ UNCHANGED isFormOpen
    /\ UNCHANGED <<sheetUrl, syncStatus, timers>>
    /\ UNCHANGED envVars

(***************************************************************************)
(* The record store driven through the buttons that the rows of either     *)
(* component show.                                                         *)
(***************************************************************************)
IdsOfRows(rows) == {rows[i].id : i \in 1..Len(rows)}

\* a paid toggle on every row, whatever its group
toggleOffered_everyRow(id) == id \in IdsOfRows(transactions)

\* the rows of gastosFixos carry the paid toggle, and no other row does
toggleOffered(id) == id \in IdsOfRows(grouped(transactions).gastosFixos)

\* the rows of receitas carry a delete button, and in the second component
\* the rows of gastosFixos as well
deleteOffered(id) ==
    \/ id \in IdsOfRows(grouped(transactions).receitas)
    \/ variant = 2 /\ id \in IdsOfRows(grouped(transactions).gastosFixos)

InitUI == InitCommon /\ FixedClock /\ variant \in {1, 2} /\ endpoint = "opaque"

NextUI ==
    \/ openForm
    \/ closeForm
    \/ \E f \in LedgerForms, id \in Ids :
          Len(transactions) < MaxLen /\ handleSubmit(f, id)
    \/ \E id \in Ids : toggleOffered(id) /\ togglePaid(id)
    \/ \E id \in Ids, confirmed \in BOOLEAN :
          deleteOffered(id) /\ deleteTransaction(id, confirmed)
    \/ mount

SpecUI == InitUI /\ [][NextUI]_vars

(***************************************************************************)
(* The whole application against an endpoint it does not control.          *)
(***************************************************************************)
\* fillings explored together with the sync adapter
SyncForms ==
    {Form("Rent", <<"1", "0">>, "2024-01-10", "GASTO_FIXO", "Torra", "2/6"),
     Form("Rent", <<>>, "2024-01-10", "GASTO_FIXO", "", "")}

\* The first App component of App.tsx.  It disables no button, so every
\* behaviour of the second component is a behaviour of this one.
Init == InitCommon /\ FixedClock /\ variant = 1 /\ endpoint = "opaque"

Next ==
    \/ openForm
    \/ closeForm
    \/ \E f \in SyncForms, id \in Ids :
          Len(transactions) < MaxLen /\ handleSubmit(f, id)
    \/ \E id \in Ids : togglePaid(id)
    \/ \E id \in Ids, confirmed \in BOOLEAN : deleteTransaction(id, confirmed)
    \/ mount
    \/ \E url \in {"", "https://script.google.com/x"} : setSheetUrl(url)
    \/ Len(pending) < MaxPending /\ handleSync
    \/ \E confirmed \in BOOLEAN :
          (confirmed => Len(pending) < MaxPending) /\ handleLoad(confirmed)
    \/ \E i \in 1..Len(pending), outcome \in PushOutcomes :
          handleSyncResume(i, outcome)
    \/ \E i \in 1..Len(pending), outcome \in PullOutcomes :
          \E body \in IF outcome = "ok" THEN Responses ELSE {<<>>} :
             handleLoadResume(i, outcome, body)
    \/ timerFire

Spec == Init /\ [][Next]_vars

(***************************************************************************)
(* The sync adapter of either component: requests, their resumptions, the  *)
(* reset timer, and togglePaid as the local edit.  The collection comes    *)
(* from the loads.                                                         *)
(***************************************************************************)
InitSync == InitCommon /\ FixedClock /\ variant \in {1, 2} /\ endpoint = "opaque"

NextSync ==
    \/ \E url \in {"", "https://script.google.com/x"} : setSheetUrl(url)
    \/ Len(pending) < MaxPending /\ handleSync
    \/ \E confirmed \in BOOLEAN :
          (confirmed => Len(pending) < MaxPending) /\ handleLoad(confirmed)
    \/ \E i \in 1..Len(pending), outcome \in PushOutcomes :
          handleSyncResume(i, outcome)
    \/ \E i \in 1..Len(pending), outcome \in PullOutcomes :
          \E body \in IF outcome = "ok" THEN Responses ELSE {<<>>} :
             handleLoadResume(i, outcome, body)
    \/ timerFire
    \/ \E id \in Ids : togglePaid(id)

SpecSync == InitSync /\ [][NextSync]_vars

\* a request pending resolves or rejects in the end, and an armed timer
\* fires
PushResumes ==
    \E i \in 1..Len(pending), outcome \in PushOutcomes :
       handleSyncResume(i, outcome)

PullResumes ==
    \E i \in 1..Len(pending), outcome \in PullOutcomes :
       \E body \in IF outcome = "ok" THEN Responses ELSE {<<>>} :
          handleLoadResume(i, outcome, body)

SpecSyncFair ==
    /\ SpecSync
    /\ WF_vars(PushResumes)
    /\ WF_vars(PullResumes)
    /\ WF_vars(timerFire)

(***************************************************************************)
(* The application against an endpoint that stores the body of a POST and  *)
(* returns it on GET.                                                      *)
(***************************************************************************)
\* a card expense with its card and instalments, a fixed expense, and an
\* amount that is no number
EchoForms ==
    {Form("Shoes", <<"7">>,      "2024-01-05", "GASTO_CARTAO", "Torra", "2/6"),
     Form("Rent",  <<"1", "0">>, "2024-01-10", "GASTO_FIXO",   "",      ""),
     Form("Rent",  <<"x">>,      "2024-01-10", "GASTO_FIXO",   "",      "")}

InitEcho == InitCommon /\ FixedClock /\ variant = 1 /\ endpoint = "echo"

\* one request in flight at a time, one id for every add
NextEcho ==
    \/ openForm
    \/ \E f \in EchoForms :
          Len(transactions) < MaxLen /\ handleSubmit(f, "a")
    \/ deleteTransaction("a", TRUE)
    \/ setSheetUrl("https://script.google.com/x")
    \/ pending = <<>> /\ handleSync
    \/ pending = <<>> /\ handleLoad(TRUE)
    \/ \E i \in 1..Len(pending) : handleSyncResume(i, "sent")
    \/ \E i \in 1..Len(pending) : handleLoadResume(i, "ok", remote.body)
    \/ timerFire

SpecEcho == InitEcho /\ [][NextEcho]_vars

(***************************************************************************)
(* The derived views of both components over collections drawn from        *)
(* ViewRecords: what the form can add and what a load can install.         *)
(***************************************************************************)
MaxView == 3     \* records in a drawn collection

ViewRecord(id, ty, a, dt, paid, card) ==
    [id |-> id, description |-> "Item", amount |-> a, date |-> dt,
     type |-> ty, category |-> ty, isPaid |-> paid, dueDate |-> dt,
     cardName |-> card, installments |-> Undefined]

\* two records of income on two dates; fixed, card and misc expenses; a
\* card expense without card and a card that is not configured; a fixed
\* expense that carries a card name, as a load can install; a negative
\* amount, a NaN amount and the null that a NaN is stored as
ViewRecords ==
    {ViewRecord("a", "RECEITA",       Num(50), "2024-01-10", TRUE,  Undefined),
     ViewRecord("b", "RECEITA",       Num(20), "2024-01-05", TRUE,  Undefined),
     ViewRecord("a", "GASTO_FIXO",    Num(10), "2024-01-10", FALSE, Undefined),
     ViewRecord("b", "GASTO_FIXO",    Num(7),  "2024-01-05", FALSE, Undefined),
     ViewRecord("a", "GASTO_CARTAO",  Num(7),  "2024-01-05", FALSE, "Torra"),
     ViewRecord("b", "GASTO_CARTAO",  Num(4),  "2024-01-10", FALSE, ""),
     ViewRecord("b", "GASTO_CARTAO",  Num(2),  "2024-01-10", TRUE,  "Outro"),
     ViewRecord("a", "GASTO_DIVERSO", Num(3),  "2024-01-10", FALSE, Undefined),
     ViewRecord("b", "GASTO_FIXO",    Num(3),  "2024-01-05", TRUE,  "Torra"),
     ViewRecord("b", "GASTO_DIVERSO", Num(0 - 5), "2024-01-05", FALSE, Undefined),
     ViewRecord("a", "GASTO_FIXO",    NaN,     "2024-01-10", FALSE, Undefined),
     ViewRecord("b", "RECEITA",       Null,    "2024-01-10", TRUE,  Undefined)}

SeqsUpTo(S, n) == UNION {[1..k -> S] : k \in 0..n}

InitViews ==
    /\ transactions \in SeqsUpTo(ViewRecords, MaxView)
    /\ storage = persistEffect(transactions)
    /\ isFormOpen = FALSE
    /\ sheetUrl = ""
    /\ isSyncing = FALSE
    /\ syncStatus = "idle"
    /\ pending = <<>>
    /\ timers = 0
    /\ remote = EmptyRemote
    /\ ev = [op |-> "mount"]
    /\ FixedClock
    /\ variant \in {1, 2}
    /\ endpoint = "opaque"

\* the memo run with the spread left out, so that sort works on the state
sortedMemo_inPlace(ts) ==
    [source |-> sortedTransactions(ts), sorted |-> sortedTransactions(ts)]

\* the run of the sortedTransactions memo: Array.prototype.sort orders the
\* array it is called on, here the copy [...transactions]; source is the
\* array of the state after the call
sortedMemo(ts) == [source |-> ts, sorted |-> sortedTransactions(ts)]

\* a render: the memos are computed, no setter is called
render ==
    /\ transactions' = sortedMemo(transactions).source
    /\ ev' = [op |-> "render"]
    /\ UNCHANGED <<storage, isFormOpen>>
    /\ UNCHANGED syncVars
    /\ UNCHANGED envVars

NextViews ==
    \/ \E id \in Ids : togglePaid(id)
    \/ render

SpecViews == InitViews /\ [][NextViews]_vars

(***************************************************************************)
(* The overdue test while the clock runs, on machines in several zones.    *)
(***************************************************************************)
MaxDue   == 2     \* records in a drawn collection
MaxTicks == 4     \* steps of the clock

\* the clock starts at 2024-01-10 00:00 UTC and advances six hours a step
ClockStart == dateTime("2024-01-10")
ClockStep  == 6 * 60

\* UTC-12, UTC-3 (Brasilia), UTC, UTC+2, UTC+14
TzOffsets == {0 - 720, 0 - 180, 0, 120, 840}

DueRecords ==
    {ViewRecord("a", "GASTO_FIXO", Num(10), dt, paid, Undefined) :
        dt \in DOMAIN DayNumber, paid \in BOOLEAN}

InitOverdue ==
    /\ transactions \in SeqsUpTo(DueRecords, MaxDue)
    /\ storage = persistEffect(transactions)
    /\ isFormOpen = FALSE
    /\ sheetUrl = ""
    /\ isSyncing = FALSE
    /\ syncStatus = "idle"
    /\ pending = <<>>
    /\ timers = 0
    /\ remote = EmptyRemote
    /\ ev = [op |-> "mount"]
    /\ now = ClockStart
    /\ tzOffset \in TzOffsets
    /\ variant \in {1, 2}
    /\ endpoint = "opaque"

\* time passes; nothing of the application changes
tick ==
    /\ now < ClockStart + MaxTicks * ClockStep
    /\ now' = now + ClockStep
    /\ ev' = [op |-> "tick"]
    /\ UNCHANGED ledgerVars
    /\ UNCHANGED syncVars
    /\ UNCHANGED <<variant, endpoint, remote, tzOffset>>

NextOverdue ==
    \/ tick
    \/ \E id \in Ids : togglePaid(id)

SpecOverdue == InitOverdue /\ [][NextOverdue]_vars

(***************************************************************************)
(* Properties.                                                             *)
(***************************************************************************)
DistinctIds(ts) == \A i, j \in 1..Len(ts) : i # j => ts[i].id # ts[j].id

EmptyField(f) == f.description = "" \/ f.amount = <<>> \/ f.date = ""

\* C1: a submission whose description, amount and date are all non-empty
\* adds a record, found first under the drawn id, whose description, parsed
\* amount, date and type are those of the form, whose category is the type
\* and which is paid exactly when the type is RECEITA.
C1_AddStoresInput ==
    (ev.op = "submit" /\ ~EmptyField(ev.form)) =>
        /\ ev.added
        /\ Len(transactions) >= 1
        /\ LET t == transactions[1]
           IN  /\ t.id = ev.id
               /\ t.description = ev.form.description
               /\ t.amount = parseFloat(ev.form.amount)
               /\ t.date = ev.form.date
               /\ t.type = ev.form.type
               /\ t.category = ev.form.type
               /\ t.isPaid = (ev.form.type = "RECEITA")

C1_Witness ==
    /\ ev.op = "submit" /\ ev.added
    /\ ev.form.type = "RECEITA"
    /\ Len(transactions) = 2
    /\ transactions[1].isPaid
    /\ transactions[1].amount = Num(0 - 5)

\* C2: a submission with an empty description, amount or date does not call
\* onAdd and leaves the collection as it was.
C2_EmptyFieldIsNoOp ==
    [][(ev'.op = "submit" /\ EmptyField(ev'.form)) =>
          (~ev'.added /\ transactions' = transactions)]_vars

C2_Witness ==
    /\ ev.op = "submit" /\ ~ev.added
    /\ ev.form.date = "" /\ ev.form.description # "" /\ ev.form.amount # <<>>
    /\ Len(transactions) = 1

C4_DeclinedChangesNothing ==
    [][/\ (ev'.op = "deleteTransaction" /\ ~ev'.confirmed) =>
             UNCHANGED <<transactions, storage>>
       /\ (ev'.op = "handleLoad" /\ ~ev'.confirmed) =>
             (UNCHANGED ledgerVars /\ UNCHANGED syncVars)]_vars

C4_Witness ==
    /\ ev.op = "deleteTransaction" /\ ~ev.confirmed
    /\ ev.id \in {transactions[i].id : i \in 1..Len(transactions)}
    /\ sheetUrl # ""

\* C5: when a pull ends, the collection is untouched if the fetch threw or
\* the status was not ok, and otherwise it is the parsed body, record by
\* record and in full.
C5_PullAllOrNothing ==
    [][ev'.op = "handleLoadResume" =>
          IF ev'.outcome = "ok"
          THEN /\ Len(transactions') = Len(ev'.payload)
               /\ \A i \in 1..Len(ev'.payload) :
                     \A key \in DOMAIN ev'.payload[i] :
                        transactions'[i][key] = ev'.payload[i][key]
          ELSE transactions' = transactions]_vars

C5_Witness ==
    /\ ev.op = "handleLoadResume" /\ ev.outcome = "notok"
    /\ Len(transactions) = 2

\* C6: after a pull that succeeded the collection, and its stored copy, are
\* the pulled body and nothing else, also when the collection was edited
\* locally while the pull was pending.
C6_PullDiscardsLocalEdits ==
    (ev.op = "handleLoadResume" /\ ev.outcome = "ok") =>
        (JSONstringify(transactions) = ev.payload /\ storage = ev.payload)

C6_Witness ==
    /\ ev.op = "handleLoadResume" /\ ev.outcome = "ok" /\ ev.afterEdit
    /\ Len(ev.payload) = 1

C8_ToggleTwiceRestores ==
    (ev.op = "togglePaid" /\ ev.twice) => transactions = ev.origin

C8_Witness ==
    /\ ev.op = "togglePaid" /\ ev.twice
    /\ Len(transactions) = 2
    /\ ev.before # transactions
    /\ \E i \in 1..Len(transactions) : transactions[i].id # ev.id

\* C9: togglePaid(id) and a confirmed deleteTransaction(id) whose id no
\* record carries leave the collection as it was; so does a confirmed
\* delete repeated for the same id.
C9_UnknownIdIsNoOp ==
    [][/\ ((ev'.op = "togglePaid"
            \/ (ev'.op = "deleteTransaction" /\ ev'.confirmed))
           /\ \A i \in 1..Len(transactions) : transactions[i].id # ev'.id) =>
             transactions' = transactions
       /\ (ev'.op = "deleteTransaction" /\ ev'.confirmed /\ ev'.again) =>
             transactions' = transactions]_vars

C9_Witness ==
    /\ ev.op = "deleteTransaction" /\ ev.confirmed /\ ev.again
    /\ Len(transactions) = 1

\* C10 as stated: in every reachable state the ids of the collection are
\* pairwise distinct.
C10_IdsAlwaysDistinct == DistinctIds(transactions)

\* C10 as amended: distinct ids stay distinct through every step except an
\* add whose drawn id is already in the collection and a load whose body
\* repeats an id; after those two the ids are not distinct.
C10_DistinctUnlessCollision ==
    [][DistinctIds(transactions) =>
          (DistinctIds(transactions') <=>
              ~ \/ (ev'.op = "submit" /\ ev'.added
                    /\ \E i \in 1..Len(transactions) :
                          transactions[i].id = ev'.id)
                \/ (ev'.op = "handleLoadResume" /\ ev'.outcome = "ok"
                    /\ ~DistinctIds(ev'.payload)))]_vars

C10_Witness ==
    /\ ev.op = "submit" /\ ev.added
    /\ Len(transactions) = 2
    /\ DistinctIds(transactions)

\* C11: togglePaid(id) changes nothing but the isPaid of the records that
\* carry the id: every other field of every record, the isPaid of the other
\* records, the order and the length stay; and no step of the record store
\* changes the type of a record that is already in the collection: an add
\* keeps the old records behind the new one, a delete keeps a subsequence,
\* every other step keeps the type at every position.
C11_ToggleChangesOnlyIsPaid ==
    [][/\ ev'.op = "togglePaid" =>
            /\ Len(transactions') = Len(transactions)
            /\ \A i \in 1..Len(transactions) :
                  /\ [transactions'[i] EXCEPT !.isPaid = transactions[i].isPaid]
                        = transactions[i]
                  /\ transactions'[i].isPaid =
                        IF transactions[i].id = ev'.id
                        THEN ~transactions[i].isPaid
                        ELSE transactions[i].isPaid
       /\ CASE ev'.op = "submit" /\ ev'.added ->
                  Tail(transactions') = transactions
            [] ev'.op = "deleteTransaction" ->
                  \A i \in 1..Len(transactions') :
                     \E j \in i..Len(transactions) :
                        transactions'[i] = transactions[j]
            [] OTHER ->
                  /\ Len(transactions') = Len(transactions)
                  /\ \A i \in 1..Len(transactions) :
                        transactions'[i].type = transactions[i].type]_vars

C11_Witness ==
    /\ ev.op = "togglePaid" /\ ev.changed
    /\ Len(transactions) = 2
    /\ \E i, j \in 1..2 :
          /\ transactions[i].id = ev.id
          /\ transactions[i].type = "GASTO_CARTAO"
          /\ transactions[i].cardName = "Torra"
          /\ transactions[i].installments = "2/6"
          /\ transactions[i].isPaid
          /\ transactions[j].id # ev.id
          /\ transactions[j].type = "RECEITA"

\* the sum of the amounts of the records of ts that satisfy Test: NaN when
\* one of them is NaN, else the sum of their values with null counted as 0
RECURSIVE ValueSum(_, _, _)
ValueSum(ts, Test(_), n) ==
    IF n = 0 THEN 0
    ELSE ValueSum(ts, Test, n - 1) + (IF Test(ts[n]) THEN ts[n].amount.v ELSE 0)

SumWhere(ts, Test(_)) ==
    IF \E i \in 1..Len(ts) : Test(ts[i]) /\ ts[i].amount.k = "nan"
    THEN NaN
    ELSE Num(ValueSum(ts, Test, Len(ts)))

\* C12: for every collection the balance shown is the income shown minus
\* the expenses shown, and the empty collection shows 0 for all three.
C12_BalanceIsIncomeMinusExpenses ==
    LET tt == totals(transactions)
    IN  /\ tt.balance = IF tt.income.k = "nan" \/ tt.expenses.k = "nan"
                        THEN NaN
                        ELSE Num(tt.income.v - tt.expenses.v)
        /\ transactions = <<>> =>
              tt.income = Num(0) /\ tt.expenses = Num(0) /\ tt.balance = Num(0)

C12_Witness ==
    /\ Len(transactions) = 3
    /\ variant = 2
    /\ totals(transactions).income = Num(70)
    /\ totals(transactions).expenses = Num(10)
    /\ totals(transactions).balance = Num(60)

\* C13: income is the sum of the amounts of the RECEITA records; expenses
\* is the sum of the amounts of all other records and is the sum of the
\* fixed, the card and the misc expenses; fixedPending and cardsPending are
\* the sums of the unpaid GASTO_FIXO and of the unpaid GASTO_CARTAO records.
C13_TotalsAreTheSums ==
    LET tt     == totals(transactions)
        fixed  == SumWhere(transactions, LAMBDA t : t.type = "GASTO_FIXO")
        cards  == SumWhere(transactions, LAMBDA t : t.type = "GASTO_CARTAO")
        divers == SumWhere(transactions, LAMBDA t : t.type = "GASTO_DIVERSO")
    IN  /\ tt.income =
              SumWhere(transactions, LAMBDA t : t.type = "RECEITA")
        /\ tt.expenses =
              SumWhere(transactions, LAMBDA t : t.type # "RECEITA")
        /\ tt.expenses =
              IF "nan" \in {fixed.k, cards.k, divers.k} THEN NaN
              ELSE Num(fixed.v + cards.v + divers.v)
        /\ tt.fixedPending =
              SumWhere(transactions,
                       LAMBDA t : t.type = "GASTO_FIXO" /\ ~t.isPaid)
        /\ tt.cardsPending =
              SumWhere(transactions,
                       LAMBDA t : t.type = "GASTO_CARTAO" /\ ~t.isPaid)

C13_Witness ==
    /\ Len(transactions) = 3
    /\ {transactions[i].type : i \in 1..3}
          = {"GASTO_FIXO", "GASTO_CARTAO", "GASTO_DIVERSO"}
    /\ \E i \in 1..3 : transactions[i].type = "GASTO_FIXO"
                       /\ transactions[i].isPaid
    /\ \E i \in 1..3 : transactions[i].type = "GASTO_CARTAO"
                       /\ ~transactions[i].isPaid
    /\ totals(transactions).expenses = Num(13)
    /\ totals(transactions).fixedPending = Num(0)
    /\ totals(transactions).cardsPending = Num(7)

\* the records of the collection before the last togglePaid that were
\* unpaid fixed expenses with the toggled id
ToggledToPaid ==
    {i \in 1..Len(ev.before) : /\ ev.before[i].id = ev.id
                               /\ ev.before[i].type = "GASTO_FIXO"
                               /\ ~ev.before[i].isPaid}

SameFlow(t1, t2) ==
    t1.income = t2.income /\ t1.expenses = t2.expenses /\ t1.balance = t2.balance

\* C14 as stated: togglePaid leaves income, expenses and balance as they
\* were, and for each unpaid GASTO_FIXO record it turns to paid fixedPending
\* is afterwards its value before minus that record's amount.
C14_ToggleLowersPendingByAmount ==
    ev.op = "togglePaid" =>
       /\ SameFlow(totals(transactions), totals(ev.before))
       /\ \A i \in ToggledToPaid :
             totals(transactions).fixedPending =
                jsSub(totals(ev.before).fixedPending, ev.before[i].amount)

\* C14 as amended: togglePaid leaves income, expenses and balance as they
\* were; when the id belongs to one record only, an unpaid GASTO_FIXO, then
\* fixedPending is afterwards the sum over the other unpaid fixed expenses,
\* which is its value before minus the record's amount unless that amount
\* is NaN.
C14_ToggleLowersPendingUniqueId ==
    ev.op = "togglePaid" =>
       /\ SameFlow(totals(transactions), totals(ev.before))
       /\ \A i \in ToggledToPaid :
             (\A j \in 1..Len(ev.before) : j # i => ev.before[j].id # ev.id) =>
                /\ totals(transactions).fixedPending =
                      SumWhere(ev.before,
                               LAMBDA t : /\ t.type = "GASTO_FIXO"
                                          /\ ~t.isPaid /\ t.id # ev.id)
                /\ ev.before[i].amount.k # "nan" =>
                      totals(transactions).fixedPending =
                         jsSub(totals(ev.before).fixedPending,
                               ev.before[i].amount)

C14_Witness ==
    /\ ev.op = "togglePaid"
    /\ Len(transactions) = 3
    /\ \E i \in ToggledToPaid :
          /\ \A j \in 1..3 : j # i => ev.before[j].id # ev.id
          /\ ev.before[i].amount = Num(10)
    /\ totals(ev.before).fixedPending = Num(17)
    /\ totals(transactions).fixedPending = Num(7)
    /\ totals(transactions).income = Num(20)

\* the calendar day, in days since 1970-01-01, that the local clock shows
LocalToday == (now + tzOffset) \div MinutesPerDay

\* C15: in every zone an unpaid record dated the local day before today is
\* overdue, and an unpaid record dated today or later is not.
C15_OverdueFollowsLocalDay ==
    \A i \in 1..Len(transactions) :
       LET t == transactions[i]
       IN  ~t.isPaid =>
              /\ DayNumber[t.date] = LocalToday - 1 => isOverdue(t.date, t.isPaid)
              /\ DayNumber[t.date] >= LocalToday => ~isOverdue(t.date, t.isPaid)

\* C16: a paid record is not overdue, whatever its date, the time and the
\* zone; so the overdue alert is shown only while some record is unpaid.
C16_PaidNeverOverdue ==
    /\ \A i \in 1..Len(transactions) :
          transactions[i].isPaid =>
             ~isOverdue(transactions[i].date, transactions[i].isPaid)
    /\ overdueAlert(transactions) =>
          \E i \in 1..Len(transactions) : ~transactions[i].isPaid

C16_Witness ==
    /\ ev.op = "togglePaid" /\ ev.changed
    /\ Len(transactions) = 2
    /\ \A i \in 1..2 : /\ transactions[i].isPaid
                       /\ DayNumber[transactions[i].date] < LocalToday - 1
    /\ overdueAlert(ev.before)
    /\ ~overdueAlert(transactions)

CardFieldsOffCard(t) ==
    /\ t.type # "GASTO_CARTAO"
    /\ t.cardName # Undefined \/ t.installments # Undefined

\* C18 as stated: in every reachable state no record other than a card
\* expense carries a cardName or an installments value.
C18_NoCardFieldsOffCards ==
    \A i \in 1..Len(transactions) : ~CardFieldsOffCard(transactions[i])

\* C18 as amended: a record other than a card expense carries a cardName or
\* an installments value only if a load installed it that way: it is,
\* up to its isPaid, a record of a body the endpoint serves.  No record
\* added through the form is such a record.
C18_CardFieldsOffCardsOnlyLoaded ==
    \A i \in 1..Len(transactions) :
       CardFieldsOffCard(transactions[i]) =>
          \E body \in Payloads :
             \E k \in 1..Len(body) :
                [JSONparse(body)[k] EXCEPT !.isPaid = transactions[i].isPaid]
                   = transactions[i]

C18_Witness ==
    /\ ev.op = "submit" /\ ev.added
    /\ ev.form.type = "GASTO_FIXO"
    /\ ev.form.cardName = "Torra" /\ ev.form.installments = "2/6"
    /\ transactions[1].cardName = Undefined
    /\ transactions[1].installments = Undefined
    /\ Len(transactions) = 2
    /\ transactions[2].id # transactions[1].id

\* the group of grouped that shows the records of a type
GroupOfType ==
    [ty \in TransactionTypes |->
        CASE ty = "RECEITA"       -> "receitas"
          [] ty = "GASTO_FIXO"    -> "gastosFixos"
          [] ty = "GASTO_CARTAO"  -> "gastosCartoes"
          [] ty = "GASTO_DIVERSO" -> "gastosDiversos"]

Count(s, r) == Cardinality({i \in 1..Len(s) : s[i] = r})

\* C19: the groups by type are a partition of the collection: every record
\* is in the group of its type, as often as the collection holds it, and in
\* no other group; every record of a group has the type of the group and
\* is a record of the collection.
C19_TypeGroupsPartition ==
    LET g == grouped(transactions)
    IN  /\ \A i \in 1..Len(transactions) :
              LET t == transactions[i]
              IN  /\ GroupOfType[t.type] \in DOMAIN g
                  /\ Count(g[GroupOfType[t.type]], t) = Count(transactions, t)
                  /\ \A ty \in TransactionTypes \ {t.type} :
                        GroupOfType[ty] \in DOMAIN g =>
                           Count(g[GroupOfType[ty]], t) = 0
        /\ \A ty \in TransactionTypes :
              GroupOfType[ty] \in DOMAIN g =>
                 \A k \in 1..Len(g[GroupOfType[ty]]) :
                    /\ g[GroupOfType[ty]][k].type = ty
                    /\ Count(transactions, g[GroupOfType[ty]][k]) > 0

\* the card buckets of the component that is mounted
Buckets(ts) ==
    IF variant = 1 THEN grouped(ts).cartoes ELSE grouped(ts).cartoesDetalhe

\* s and u hold the same records the same number of times
SameRecords(s, u) ==
    /\ Len(s) = Len(u)
    /\ \A i \in 1..Len(s) : Count(s, s[i]) = Count(u, s[i])

\* C20: the bucket of a card holds exactly the card expenses with that
\* cardName; a record whose cardName is empty or is none of the four cards
\* is in no bucket, and neither is a record that is no card expense.
C20_BucketsHoldCardExpenses ==
    LET b == Buckets(transactions)
    IN  /\ \A name \in CardNames :
              SameRecords(b[name],
                          SelectSeq(transactions,
                                    LAMBDA t : /\ t.type = "GASTO_CARTAO"
                                               /\ t.cardName = name))
        /\ \A i \in 1..Len(transactions) :
              (\/ transactions[i].cardName \notin CardNames
               \/ transactions[i].type # "GASTO_CARTAO") =>
                 \A name \in CardNames : Count(b[name], transactions[i]) = 0

\* C21: when handleSync resumes, syncStatus is 'success' if the request was
\* dispatched and 'error' if fetch threw, and the collection and its stored
\* copy are as they were.
C21_PushStatusFollowsDispatch ==
    [][ev'.op = "handleSyncResume" =>
          /\ syncStatus' = IF ev'.outcome = "sent" THEN "success" ELSE "error"
          /\ transactions' = transactions
          /\ storage' = storage]_vars

C21_Witness ==
    /\ ev.op = "handleSyncResume" /\ ev.outcome = "throw"
    /\ syncStatus = "error"
    /\ Len(transactions) = 2
    /\ timers = 1

\* C22: no handleSync and no handleLoad starts a request while a request
\* started earlier is still pending.
C22_NoSecondRequestWhilePending ==
    [][(ev'.op \in {"handleSync", "handleLoad"} /\ ev'.started) =>
          pending = <<>>]_vars

\* C26: isSyncing is true in every state in which a request is pending.
C26_SyncingWhilePending ==
    pending # <<>> => isSyncing

\* C27: while the page stays loaded, a syncStatus of 'error' stays 'error'
\* through every step but the resumption of a push that was dispatched; the
\* reset timer of an earlier push does not turn it to 'idle'.
C27_ErrorStaysUntilSuccess ==
    [][(syncStatus = "error" /\ ev'.op # "reload") =>
          \/ syncStatus' = "error"
          \/ ev'.op = "handleSyncResume" /\ ev'.outcome = "sent"]_vars

\* C25: when a pull succeeds right after another pull that it overlapped,
\* the collection is the body of the one that resolved last, whichever of
\* the two was started first.
C25_LastResolvedPullWins ==
    (ev.op = "handleLoadResume" /\ ev.outcome = "ok") =>
        transactions = JSONparse(ev.payload)

C25_Witness ==
    /\ ev.op = "handleLoadResume" /\ ev.outcome = "ok" /\ ev.raced
    /\ pending = <<>>
    /\ Len(transactions) = 1
    /\ transactions = JSONparse(ev.payload)

\* C28: when every pending request resolves or rejects in the end,
\* isSyncing = true is always followed by isSyncing = false, whichever way
\* the requests end; and a push that was dispatched is always followed by
\* syncStatus = 'idle'.
C28_SyncingEndsAndStatusResets ==
    /\ isSyncing ~> ~isSyncing
    /\ (ev.op = "handleSyncResume" /\ ev.outcome = "sent")
          ~> (syncStatus = "idle")

C28_Witness ==
    /\ ev.op = "timerFire" /\ ev.statusBefore = "success"
    /\ syncStatus = "idle"
    /\ ~isSyncing /\ pending = <<>>
    /\ Len(transactions) = 2

NonDecreasingDates(s) ==
    \A i, j \in 1..Len(s) :
       i < j => DayNumber[s[i].date] <= DayNumber[s[j].date]

NonIncreasingDates(s) ==
    \A i, j \in 1..Len(s) :
       i < j => DayNumber[s[i].date] >= DayNumber[s[j].date]

\* C24: the groups of fixed, card and misc expenses and every card bucket
\* list their records from the earliest date to the latest, the income
\* group from the latest to the earliest, and computing the views leaves
\* the collection in the order it had.
C24_ViewsOrderedByDate ==
    [][/\ LET g == grouped(transactions)
          IN  /\ NonIncreasingDates(g.receitas)
              /\ NonDecreasingDates(g.gastosFixos)
              /\ NonDecreasingDates(g.gastosCartoes)
              /\ "gastosDiversos" \in DOMAIN g =>
                    NonDecreasingDates(g.gastosDiversos)
              /\ \A name \in CardNames :
                    NonDecreasingDates(Buckets(transactions)[name])
       /\ ev'.op = "render" => transactions' = transactions]_vars

C24_Witness ==
    /\ ev.op = "render"
    /\ variant = 2
    /\ Len(transactions) = 3
    /\ DayNumber[transactions[1].date] > DayNumber[transactions[2].date]
    /\ \A i \in 1..3 : transactions[i].type = "GASTO_DIVERSO"
    /\ transactions[1] # transactions[3]
    /\ sortedTransactions(transactions) # transactions

\* C30 as stated: for every collection the score shown is a number from 0
\* to 100.
C30_ScoreWithinBounds ==
    /\ score(transactions).k = "num"
    /\ score(transactions).v >= 0
    /\ score(transactions).v <= 100

\* C30 as amended: the score is NaN exactly when the expenses are NaN;
\* otherwise it is never below 0, it is at most 100 when expenses and
\* income (0 and NaN counted as 1) do not differ in sign, and it is above
\* 100 when they do.
C30_ScoreWithinBoundsUnlessSignsDiffer ==
    LET tt   == totals(transactions)
        inc  == IF tt.income.k = "nan" \/ tt.income.v = 0 THEN 1
                ELSE tt.income.v
        s    == scoreExact(transactions)
        seen == score(transactions)
    IN  IF tt.expenses.k = "nan"
        THEN s = NaN /\ seen = NaN
        ELSE /\ s # NaN /\ seen.k = "num"
             /\ s.n >= 0 /\ seen.v >= 0
             /\ tt.expenses.v * inc >= 0 => (s.n <= 100 * s.d /\ seen.v <= 100)
             /\ tt.expenses.v * inc < 0 => (s.n > 100 * s.d /\ seen.v >= 100)

C30_Witness ==
    /\ Len(transactions) = 3
    /\ totals(transactions).income = Num(50)
    /\ totals(transactions).expenses = Num(17)
    /\ score(transactions) = Num(66)

\* income is paid, card and misc expenses are unpaid, and the pending card
\* sum is the sum of all card expenses
PaidAsCreated(ts) ==
    /\ \A i \in 1..Len(ts) :
          /\ ts[i].type = "RECEITA" => ts[i].isPaid
          /\ ts[i].type \in {"GASTO_CARTAO", "GASTO_DIVERSO"} => ~ts[i].isPaid
    /\ totals(ts).cardsPending =
          SumWhere(ts, LAMBDA t : t.type = "GASTO_CARTAO")

\* C29 as stated: in every state reached through the buttons, without a
\* load, every RECEITA record is paid, every GASTO_CARTAO and GASTO_DIVERSO
\* record is unpaid, and cardsPending is the sum of all card expenses.
C29_OnlyFixedRowsToggle == PaidAsCreated(transactions)

\* C29 as amended: the same holds in every such state in which no two
\* records share an id; togglePaid flips every record that carries the id of
\* the fixed expense whose row was clicked.
C29_OnlyFixedRowsToggleDistinctIds ==
    DistinctIds(transactions) => PaidAsCreated(transactions)

C29_Witness ==
    /\ ev.op = "togglePaid" /\ ev.changed
    /\ DistinctIds(transactions)
    /\ Len(transactions) = 2
    /\ \E i, j \in 1..2 :
          /\ transactions[i].type = "GASTO_FIXO" /\ transactions[i].isPaid
          /\ transactions[j].type = "GASTO_CARTAO"
          /\ transactions[j].amount = Num(10)
    /\ totals(transactions).cardsPending = Num(10)

====
